---- MODULE Spec2Model ----
(***************************************************************************)
(* Model of the hybrid conversation memory                                 *)
(* (src/src/memory/hybrid_conversation_memory.py): the SQLite tables       *)
(* `sessions` and `conversations`, the HybridConversationMemory manager    *)
(* instances with their in-memory buffer / summary components, and the     *)
(* module-level history fetch.                                             *)
(***************************************************************************)
EXTENDS Integers, Sequences, FiniteSets, TLC

\* ------------------------------------------------------------------ bounds
MaxSaves == 4            \* save_context calls made in one behaviour
MaxClock == 1            \* CURRENT_TIMESTAMP takes the values 0..MaxClock
MaxMetaSaves == 2        \* save_context calls made in one behaviour of SpecMeta
MaxBufferSaves == 6      \* save_context calls made in one behaviour of SpecBuffer
MaxTwoSaves == 3         \* save_context calls made in one behaviour of SpecTwo
MaxRaceSaves == 3        \* save_context calls made in one behaviour of SpecSaves
MaxChainSaves == 3       \* save_context calls made in one behaviour of SpecChain

\* ------------------------------------------------------ program constants
summary_threshold == 3   \* create_hybrid_memory(summary_threshold=3)
buffer_window == 5       \* create_hybrid_memory(buffer_window=5)

Sessions == {"s1", "s2"}
Inst == {1, 2}           \* the manager instances a behaviour can hold
Kept == {1}              \* the one manager the caller of Spec keeps

\* ------------------------------------------------------------ JSON values
\* A Python value that json.dumps accepts, as a tagged record of one shape.
EmptyMap == [x \in {} |-> x]
JNull == [k |-> "null", s |-> "", items |-> <<>>, kv |-> EmptyMap]
JBool(b) == [k |-> "bool", s |-> IF b THEN "true" ELSE "false", items |-> <<>>, kv |-> EmptyMap]
JNum(n) == [k |-> "num", s |-> n, items |-> <<>>, kv |-> EmptyMap]
JStr(x) == [k |-> "str", s |-> x, items |-> <<>>, kv |-> EmptyMap]
JList(l) == [k |-> "list", s |-> "", items |-> l, kv |-> EmptyMap]
JDict(f) == [k |-> "dict", s |-> "", items |-> <<>>, kv |-> f]

\* Tokens of the serialized text held in the TEXT column sessions.metadata.
Tok(t, x) == [t |-> t, s |-> x]
LBrace == Tok("{", "")
RBrace == Tok("}", "")
LBrack == Tok("[", "")
RBrack == Tok("]", "")
Comma == Tok(",", "")
Colon == Tok(":", "")

\* The order in which json.dumps writes the keys of a dict (a dict is a
\* function here, so a fixed order of the key names stands for insertion order).
KeyOrder == <<"a", "b", "c", "x", "a.b", "welcome_done", "reasons", "reasons_confirmed",
              "vars_info_given", "vars", "monthly", "duration", "rate">>

RECURSIVE json_dumps(_)
RECURSIVE DumpItems(_)
RECURSIVE DumpMembers(_, _)

DumpItems(l) ==
    IF l = <<>> THEN <<>>
    ELSE IF Len(l) = 1 THEN json_dumps(l[1])
    ELSE json_dumps(l[1]) \o <<Comma>> \o DumpItems(Tail(l))

DumpMembers(f, keys) ==
    IF keys = <<>> THEN <<>>
    ELSE LET m == <<Tok("str", Head(keys)), Colon>> \o json_dumps(f[Head(keys)])
         IN  IF Len(keys) = 1 THEN m ELSE m \o <<Comma>> \o DumpMembers(f, Tail(keys))

json_dumps(v) ==
    CASE v.k = "null" -> <<Tok("null", "")>>
      [] v.k = "bool" -> <<Tok("bool", v.s)>>
      [] v.k = "num"  -> <<Tok("num", v.s)>>
      [] v.k = "str"  -> <<Tok("str", v.s)>>
      [] v.k = "list" -> <<LBrack>> \o DumpItems(v.items) \o <<RBrack>>
      [] v.k = "dict" ->
            <<LBrace>> \o DumpMembers(v.kv, SelectSeq(KeyOrder, LAMBDA key : key \in DOMAIN v.kv))
                       \o <<RBrace>>

\* json.loads as a recursive-descent parser; ok = FALSE is JSONDecodeError.
ParseFail == [ok |-> FALSE, val |-> JNull, rest |-> <<>>]
ParseOk(v, rest) == [ok |-> TRUE, val |-> v, rest |-> rest]

RECURSIVE ParseValue(_)
RECURSIVE ParseItems(_, _)
RECURSIVE ParseMembers(_, _)

\* after "[" or after a ",": a value, then "," or "]"
ParseItems(toks, acc) ==
    LET r == ParseValue(toks) IN
    IF ~r.ok \/ r.rest = <<>> THEN ParseFail
    ELSE IF Head(r.rest) = RBrack THEN ParseOk(JList(Append(acc, r.val)), Tail(r.rest))
    ELSE IF Head(r.rest) = Comma THEN ParseItems(Tail(r.rest), Append(acc, r.val))
    ELSE ParseFail

\* after "{" or after a ",": a string, ":", a value, then "," or "}"
ParseMembers(toks, acc) ==
    IF Len(toks) < 2 \/ Head(toks).t # "str" \/ toks[2] # Colon THEN ParseFail
    ELSE LET key == Head(toks).s
             r == ParseValue(Tail(Tail(toks)))
             acc2 == [n \in DOMAIN acc \cup {key} |-> IF n = key THEN r.val ELSE acc[n]]
         IN  IF ~r.ok \/ r.rest = <<>> THEN ParseFail
             ELSE IF Head(r.rest) = RBrace THEN ParseOk(JDict(acc2), Tail(r.rest))
             ELSE IF Head(r.rest) = Comma THEN ParseMembers(Tail(r.rest), acc2)
             ELSE ParseFail

ParseValue(toks) ==
    IF toks = <<>> THEN ParseFail
    ELSE LET h == Head(toks) IN
         CASE h.t = "null" -> ParseOk(JNull, Tail(toks))
           [] h.t = "bool" -> ParseOk(JBool(h.s = "true"), Tail(toks))
           [] h.t = "num"  -> ParseOk(JNum(h.s), Tail(toks))
           [] h.t = "str"  -> ParseOk(JStr(h.s), Tail(toks))
           [] h.t = "["    -> IF Len(toks) >= 2 /\ toks[2] = RBrack
                              THEN ParseOk(JList(<<>>), Tail(Tail(toks)))
                              ELSE ParseItems(Tail(toks), <<>>)
           [] h.t = "{"    -> IF Len(toks) >= 2 /\ toks[2] = RBrace
                              THEN ParseOk(JDict(EmptyMap), Tail(Tail(toks)))
                              ELSE ParseMembers(Tail(toks), EmptyMap)
           [] OTHER -> ParseFail

\* json.loads(text): the whole text must be one value
json_loads(text) ==
    LET r == ParseValue(text) IN
    IF r.ok /\ r.rest = <<>> THEN r ELSE ParseFail

\* --------------------------------------------------- summary values
\* The text of a summary is kept as the sequence of the turns folded into it
\* (the empty sequence is the empty text).
PyStr(turns) == [py |-> "str", v |-> turns]
\* ConversationSummaryMemory.load_memory_variables with return_messages=True:
\* the list [SystemMessage(content=buffer)]
summary_load(turns) == [py |-> "messages", v |-> turns]
\* str(obj): a str is itself, a list gives the text of its repr,
\* "[SystemMessage(content=..)]", which is never the empty text
py_str(obj) == IF obj.py = "str" THEN obj ELSE [py |-> "repr", v |-> obj.v]

\* ------------------------------------------------------------------ state
VARIABLES
    sessions,       \* table sessions: session_id -> row (metadata TEXT, conversation_length)
    conversations,  \* table conversations, in rowid order
    now,            \* the value CURRENT_TIMESTAMP yields (one-second resolution)
    mem,            \* the HybridConversationMemory instances
    last_save,      \* the last save_context call: its session, and whether it
                    \*          ended in an exception
    calls,          \* number of save_context calls made so far
    fresh,          \* history: no operation went through the instance since __init__
    streak,         \* history: returned save_context calls of an instance that started
                    \*          on a session without state and was not interfered with
    crossed,        \* history: the session's stored counter reached summary_threshold
                    \*          since the session was last cleared
    returned,       \* history: save_context calls on the session that returned
                    \*          since the session was last cleared
    cleared,        \* history: clear() calls through the instance (at most 2 counted)
                    \*          since the last write to its session
    inflight,       \* the call a thread is in the middle of, per manager instance
    llm_calls,      \* history: summarizer (LLM) invocations made so far
    result          \* the mapping the last CompleteChain.invoke call returned

vars == <<sessions, conversations, now, mem, last_save, calls, fresh, streak, crossed,
         returned, cleared, inflight, llm_calls, result>>

Payload(n) == <<n, 100 + n>>      \* the n-th call's distinct (message, response)
Payloads == {Payload(n) : n \in 1..MaxSaves}

\* the column defaults of table sessions
metadata_default == <<LBrace, RBrace>>     \* metadata TEXT DEFAULT '{}'
conversation_length_default == 0

NoRow == [present |-> FALSE, metadata |-> <<>>, conversation_length |-> 0]
NoInst == [alive |-> FALSE, session_id |-> "", conversation_length |-> 0,
           buffer |-> <<>>, summary |-> <<>>]

\* HybridConversationMemory.__init__: empty buffer and summary components,
\* self._conversation_length = 0 (the stored counter is not read)
new_manager(sid) == [alive |-> TRUE, session_id |-> sid, conversation_length |-> 0,
                    buffer |-> <<>>, summary |-> <<>>]

\* --------------------------------------------------------------- storage
\* SELECT conversation_length FROM sessions WHERE session_id = ?
get_conversation_length(sess, sid) ==
    IF sess[sid].present THEN sess[sid].conversation_length ELSE 0

\* mutant: INSERT OR IGNORE, which keeps a row that exists
update_conversation_length_ignore(sess, sid, length) ==
    IF sess[sid].present THEN sess
    ELSE [sess EXCEPT ![sid] = [present |-> TRUE,
                                metadata |-> metadata_default,
                                conversation_length |-> length]]

\* mutant: a transactional upsert, conversation_length = conversation_length + 1
update_conversation_length_upsert(sess, sid, length) ==
    [sess EXCEPT ![sid] = [present |-> TRUE,
                           metadata |-> metadata_default,
                           conversation_length |-> get_conversation_length(sess, sid) + 1]]

\* INSERT OR REPLACE INTO sessions (session_id, conversation_length, updated_at):
\* the old row is deleted and the columns not named take their DEFAULT.
update_conversation_length(sess, sid, length) ==
    [sess EXCEPT ![sid] = [present |-> TRUE,
                           metadata |-> metadata_default,
                           conversation_length |-> length]]

should_use_summary(length) == length >= summary_threshold

\* SELECT metadata ...; json.loads, {} on a missing row, empty text or decode error
get_session_metadata(sess, sid) ==
    IF sess[sid].present /\ sess[sid].metadata # <<>>
    THEN LET r == json_loads(sess[sid].metadata)
         IN  IF r.ok THEN r.val ELSE JDict(EmptyMap)
    ELSE JDict(EmptyMap)

\* mutant: a deep merge, which merges a nested object instead of replacing it
MergeDoc_deep(existing, patch) ==
    [key \in DOMAIN existing \cup DOMAIN patch |->
        IF key \notin DOMAIN patch THEN existing[key]
        ELSE IF key \in DOMAIN existing /\ existing[key].k = "dict" /\ patch[key].k = "dict"
             THEN JDict([n \in DOMAIN existing[key].kv \cup DOMAIN patch[key].kv |->
                            IF n \in DOMAIN patch[key].kv THEN patch[key].kv[n]
                            ELSE existing[key].kv[n]])
             ELSE patch[key]]

\* {**existing_metadata, **metadata}
MergeDoc(existing, patch) ==
    [key \in DOMAIN existing \cup DOMAIN patch |->
        IF key \in DOMAIN patch THEN patch[key] ELSE existing[key]]

\* {**existing_metadata, **metadata} raises TypeError when existing_metadata, the
\* value json.loads gave, is not a mapping (a list, a number, a str, None)
merge_raises(existing_metadata) == existing_metadata.k # "dict"

\* mutant: the document is read again inside the writing statement
write_merged_metadata_reread(sess, sid, existing_metadata, patch) ==
    LET merged_metadata == MergeDoc(get_session_metadata(sess, sid).kv, patch)
    IN  [sess EXCEPT ![sid] = [present |-> TRUE,
                               metadata |-> json_dumps(JDict(merged_metadata)),
                               conversation_length |-> conversation_length_default]]

\* merged_metadata = {**existing_metadata, **metadata};
\* INSERT OR REPLACE INTO sessions (session_id, metadata, updated_at); when the
\* merge raises, the statement is not reached and the table is as it was
write_merged_metadata(sess, sid, existing_metadata, patch) ==
    LET merged_metadata == MergeDoc(existing_metadata.kv, patch)
    IN  IF merge_raises(existing_metadata) THEN sess
        ELSE [sess EXCEPT ![sid] = [present |-> TRUE,
                                    metadata |-> json_dumps(JDict(merged_metadata)),
                                    conversation_length |-> conversation_length_default]]

\* existing_metadata = self.get_session_metadata(), through a connection of its
\* own, and then the merge and the write
set_session_metadata(sess, sid, patch) ==
    write_merged_metadata(sess, sid, get_session_metadata(sess, sid), patch)

\* mutant: the document is replaced by the one entry
update_session_metadata_replace(sess, sid, key, value) ==
    [sess EXCEPT ![sid] = [present |-> TRUE,
                           metadata |-> json_dumps(JDict((key :> value))),
                           conversation_length |-> conversation_length_default]]

\* metadata = get_session_metadata(); metadata[key] = value; set_session_metadata(metadata)
update_session_metadata(sess, sid, key, value) ==
    LET metadata == get_session_metadata(sess, sid).kv
    IN  set_session_metadata(sess, sid, MergeDoc(metadata, (key :> value)))

\* the key as one string: its pieces joined
RECURSIVE text(_)
text(chars) == IF chars = <<>> THEN "" ELSE Head(chars) \o text(Tail(chars))

\* key.split('.') over the pieces of the key text ("." is the separator)
RECURSIVE SplitFrom(_, _, _)
SplitFrom(chars, segs, cur) ==
    IF chars = <<>> THEN Append(segs, cur)
    ELSE IF Head(chars) = "." THEN SplitFrom(Tail(chars), Append(segs, cur), "")
    ELSE SplitFrom(Tail(chars), segs, cur \o Head(chars))

split(chars) == SplitFrom(chars, <<>>, "")

\* mutant: the walk goes on without the isinstance(current, dict) test and
\* gives back the value it stands on
RECURSIVE walk_unchecked(_, _, _)
walk_unchecked(current, keys, default) ==
    IF keys = <<>> THEN current
    ELSE IF current.k # "dict" THEN current
    ELSE IF Head(keys) \in DOMAIN current.kv
         THEN walk_unchecked(current.kv[Head(keys)], Tail(keys), default)
    ELSE default

\* for k in keys: if isinstance(current, dict) and k in current: current = current[k]
\*                else: return default
RECURSIVE walk(_, _, _)
walk(current, keys, default) ==
    IF keys = <<>> THEN current
    ELSE IF current.k = "dict" /\ Head(keys) \in DOMAIN current.kv
         THEN walk(current.kv[Head(keys)], Tail(keys), default)
    ELSE default

get_metadata_value(sess, sid, key, default) ==
    walk(get_session_metadata(sess, sid), split(key), default)

\* ------------------------------------------------- the reasons list
\* reason in reasons
contains(l, x) == \E j \in DOMAIN l : l[j] = x

\* reasons.remove(reason): the first occurrence goes
RECURSIVE list_remove(_, _)
list_remove(l, x) ==
    IF l = <<>> THEN <<>>
    ELSE IF Head(l) = x THEN Tail(l)
    ELSE <<Head(l)>> \o list_remove(Tail(l), x)

\* get_metadata_value("reasons", [])
get_reasons(sess, sid) == get_metadata_value(sess, sid, <<"reasons">>, JList(<<>>))

\* update_session_metadata("reasons", reasons)
set_reasons(sess, sid, reasons) == update_session_metadata(sess, sid, "reasons", reasons)

\* mutant: the reason is appended without the membership test
add_reason_always(sess, sid, reason) ==
    LET reasons == get_reasons(sess, sid).items
    IN  set_reasons(sess, sid, JList(Append(reasons, reason)))

\* if reason not in reasons: reasons.append(reason); self.set_reasons(reasons)
add_reason(sess, sid, reason) ==
    LET reasons == get_reasons(sess, sid).items
    IN  IF ~contains(reasons, reason)
        THEN set_reasons(sess, sid, JList(Append(reasons, reason)))
        ELSE sess

\* if reason in reasons: reasons.remove(reason); self.set_reasons(reasons)
remove_reason(sess, sid, reason) ==
    LET reasons == get_reasons(sess, sid).items
    IN  IF contains(reasons, reason)
        THEN set_reasons(sess, sid, JList(list_remove(reasons, reason)))
        ELSE sess

\* ------------------------------------------------ the loan variables
\* {"monthly": None, "duration": None, "rate": None}
vars_default == JDict(("monthly" :> JNull) @@ ("duration" :> JNull) @@ ("rate" :> JNull))

\* dict.get(key): None for a key that is missing
dict_get(d, key) == IF key \in DOMAIN d THEN d[key] ELSE JNull

\* get_metadata_value("vars", {"monthly": None, "duration": None, "rate": None})
get_vars(sess, sid) == get_metadata_value(sess, sid, <<"vars">>, vars_default)

\* update_session_metadata("vars", vars_data)
set_vars(sess, sid, vars_data) == update_session_metadata(sess, sid, "vars", vars_data)

\* update_session_metadata("vars_info_given", given)
set_vars_info_given(sess, sid, given) ==
    update_session_metadata(sess, sid, "vars_info_given", JBool(given))

\* vars_data = self.get_vars(); vars_data[var_name] = value; self.set_vars(vars_data)
update_var(sess, sid, var_name, value) ==
    LET vars_data == get_vars(sess, sid).kv
    IN  set_vars(sess, sid, JDict(MergeDoc(vars_data, (var_name :> value))))

\* mutant: the three arguments are stored as given, None included
set_loan_variables_all(sess, sid, monthly, duration, rate) ==
    LET vars_data == get_vars(sess, sid).kv
        given == ("monthly" :> monthly) @@ ("duration" :> duration) @@ ("rate" :> rate)
    IN  set_vars(sess, sid, JDict(MergeDoc(vars_data, given)))

\* if monthly is not None: vars_data["monthly"] = monthly, and so for duration
\* and rate; self.set_vars(vars_data)
set_loan_variables(sess, sid, monthly, duration, rate) ==
    LET vars_data == get_vars(sess, sid).kv
        given == ("monthly" :> monthly) @@ ("duration" :> duration) @@ ("rate" :> rate)
        not_none == [key \in {n \in DOMAIN given : given[n] # JNull} |-> given[key]]
    IN  set_vars(sess, sid, JDict(MergeDoc(vars_data, not_none)))

\* all(vars_data.get(key) is not None for key in ["monthly", "duration", "rate"])
is_loan_info_complete(sess, sid) ==
    LET vars_data == get_vars(sess, sid).kv
    IN  \A key \in {"monthly", "duration", "rate"} : dict_get(vars_data, key) # JNull

\* self.set_vars({all None}); self.set_vars_info_given(False)
reset_loan_variables(sess, sid) ==
    set_vars_info_given(set_vars(sess, sid, vars_default), sid, FALSE)

\* mutant: the message and response columns swapped
save_to_full_history_swapped(conv, sid, message, response, ts) ==
    Append(conv, [session_id |-> sid, message |-> response,
                  response |-> message, timestamp |-> ts])

\* mutant: the new row is put before the rows stored
save_to_full_history_first(conv, sid, message, response, ts) ==
    <<[session_id |-> sid, message |-> message,
       response |-> response, timestamp |-> ts]>> \o conv

\* mutant: INSERT OR REPLACE with the session as the key, one row a session
save_to_full_history_replace(conv, sid, message, response, ts) ==
    Append(SelectSeq(conv, LAMBDA row : row.session_id # sid),
           [session_id |-> sid, message |-> message,
            response |-> response, timestamp |-> ts])

\* INSERT INTO conversations (session_id, message, response, metadata)
save_to_full_history(conv, sid, message, response, ts) ==
    Append(conv, [session_id |-> sid, message |-> message,
                  response |-> response, timestamp |-> ts])

\* the rows of one session, in rowid order
Transcript(conv, sid) == SelectSeq(conv, LAMBDA row : row.session_id = sid)

\* mutant: the DELETE is left out
delete_conversations_none(conv, sid) == conv

\* mutant: the DELETE has no WHERE clause
delete_conversations_all(conv, sid) == <<>>

\* DELETE FROM conversations WHERE session_id = ?
delete_conversations(conv, sid) == SelectSeq(conv, LAMBDA row : row.session_id # sid)

Reverse(q) == [j \in 1..Len(q) |-> q[Len(q) + 1 - j]]

\* ORDER BY timestamp DESC over the rows at the positions idx: rows with equal
\* timestamps come in an order SQLite leaves unspecified, so every order of the
\* ties is a possible result.
RECURSIVE OrderedFrom(_, _)
OrderedFrom(rows, idx) ==
    IF idx = {} THEN {<<>>}
    ELSE UNION {{<<rows[j]>> \o rest : rest \in OrderedFrom(rows, idx \ {j})} :
                j \in {a \in idx : \A b \in idx : rows[a].timestamp >= rows[b].timestamp}}

OrderedDesc(rows) == OrderedFrom(rows, DOMAIN rows)

\* LIMIT ?
Limit(q, k) == SubSeq(q, 1, IF k < Len(q) THEN k ELSE Len(q))

\* ------------------------------------------------------- what reads return
\* HybridConversationMemory.get_memory_stats of the instance m
get_memory_stats(m, sess) ==
    [session_id |-> m.session_id,
     conversation_length |-> m.conversation_length,
     using_summary |-> should_use_summary(m.conversation_length),
     buffer_window |-> buffer_window,
     summary_threshold |-> summary_threshold,
     session_metadata |-> get_session_metadata(sess, m.session_id)]

\* mutant: the mode is decided from the instance's counter, not the stored one
load_memory_variables_stale(m, sess) ==
    [recent_history |-> m.buffer,
     conversation_summary |-> IF should_use_summary(m.conversation_length)
                              THEN summary_load(m.summary)
                              ELSE PyStr(<<>>),
     session_metadata |-> get_session_metadata(sess, m.session_id)]

\* HybridConversationMemory.load_memory_variables: the returned mapping
load_memory_variables(m, sess) ==
    LET length == get_conversation_length(sess, m.session_id) IN
    [recent_history |-> m.buffer,
     conversation_summary |-> IF should_use_summary(length) THEN summary_load(m.summary)
                              ELSE PyStr(<<>>),
     session_metadata |-> get_session_metadata(sess, m.session_id)]

\* get_hybrid_conversation_history: the mappings it can return
get_hybrid_conversation_history(conv, sid, limit, include_summary) ==
    {LET recent_messages == Reverse(Limit(sorted, limit))
         temp_memory == new_manager(sid)
     IN  [recent_messages |-> [j \in 1..Len(recent_messages) |->
                                  [message |-> recent_messages[j].message,
                                   response |-> recent_messages[j].response,
                                   timestamp |-> recent_messages[j].timestamp]],
          conversation_summary |-> IF include_summary
                                   THEN py_str(summary_load(temp_memory.summary))
                                   ELSE PyStr(<<>>),
          total_messages |-> Len(recent_messages)]
     : sorted \in OrderedDesc(Transcript(conv, sid))}

\* mutant: the summary component is saved to in both modes
summary_invocations_always(use_summary) == 1

\* if self._should_use_summary(): self.summary_memory.save_context(inputs, outputs),
\* the one place the summarizer is called from: the number of calls it gets
summary_invocations(use_summary) == IF use_summary THEN 1 ELSE 0

\* HybridConversationMemory.save_context on the instance m up to the counter
\* write (buffer save, summary save, self._conversation_length += 1,
\* _update_conversation_length); llm_ok = FALSE: the summarizer call made by
\* summary_memory.save_context raises, and the exception leaves save_context
\* before the counter and the transcript are written.
save_context_begin(m, sess, message, response, llm_ok) ==
    LET turn == <<message, response>>
        use_summary == should_use_summary(m.conversation_length)
        length == m.conversation_length + 1
    IN  IF use_summary /\ ~llm_ok
        THEN [mem |-> [m EXCEPT !.buffer = Append(m.buffer, turn)],
              sessions |-> sess, raised |-> TRUE,
              llm |-> summary_invocations(use_summary)]
        ELSE [mem |-> [m EXCEPT !.buffer = Append(m.buffer, turn),
                                !.summary = IF use_summary THEN Append(m.summary, turn)
                                            ELSE m.summary,
                                !.conversation_length = length],
              sessions |-> update_conversation_length(sess, m.session_id, length),
              raised |-> FALSE,
              llm |-> summary_invocations(use_summary)]

\* HybridConversationMemory.save_context as a whole: the steps above and then
\* _save_to_full_history
save_context(m, sess, conv, ts, message, response, llm_ok) ==
    LET b == save_context_begin(m, sess, message, response, llm_ok)
    IN  [mem |-> b.mem,
         sessions |-> b.sessions,
         conversations |-> IF b.raised THEN conv
                           ELSE save_to_full_history(conv, m.session_id,
                                                     message, response, ts),
         raised |-> b.raised,
         llm |-> b.llm]

\* ------------------------------------------------------ CompleteChain
\* the agents in the order invoke calls them
AgentOrder == <<"curator", "processor", "formatter">>

\* what an agent's invoke can do, as the chain sees it: the curator returns a
\* result that is valid or not, or raises; the others return or raise
CuratorOutcomes == {"valid", "invalid", "raise"}
AgentOutcomes == {"ok", "raise"}

\* the texts of the responses, one number a text:
\* formatter_result.formatted_response
formatted_response(message) == 100 + message
\* f"Message validation failed: {', '.join(curator_result.validation_errors)}"
validation_failed_response(message) == 200 + message
\* f"Error processing message: {str(e)}"
error_response(message) == 300 + message

\* mutant: the check of the curator result is left out
is_valid_always(curator) == TRUE

\* curator_result.is_valid
is_valid(curator) == curator = "valid"

\* CompleteChain.invoke: the mapping returned, the agents whose invoke was
\* called, the tables it leaves and the save_context calls it made. The
\* manager is made for the request, so its counter is 0 and its save_context
\* does not call the summarizer.
invoke(sess, conv, ts, session_id, message, curator, processor, formatter) ==
    LET memory == new_manager(session_id)
        except(agents_used, invoked) ==
            [returned |-> [response |-> error_response(message),
                           session_id |-> session_id,
                           agents_used |-> agents_used,
                           is_valid |-> FALSE,
                           content_type |-> "error",
                           success |-> FALSE],
             invoked |-> invoked, sessions |-> sess, conversations |-> conv,
             saves |-> 0, llm |-> 0]
        saved(response, agents_used, success) ==
            LET r == save_context(memory, sess, conv, ts, message, response, TRUE)
            IN  [returned |-> [response |-> response,
                               session_id |-> session_id,
                               agents_used |-> agents_used,
                               is_valid |-> is_valid(curator),
                               content_type |-> "curator",
                               success |-> success],
                 invoked |-> agents_used, sessions |-> r.sessions,
                 conversations |-> r.conversations, saves |-> 1, llm |-> r.llm]
    IN  IF curator = "raise" THEN except(<<>>, SubSeq(AgentOrder, 1, 1))
        ELSE IF ~is_valid(curator)
        THEN saved(validation_failed_response(message), SubSeq(AgentOrder, 1, 1), FALSE)
        ELSE IF processor = "raise"
        THEN except(SubSeq(AgentOrder, 1, 1), SubSeq(AgentOrder, 1, 2))
        ELSE IF formatter = "raise"
        THEN except(SubSeq(AgentOrder, 1, 2), AgentOrder)
        ELSE saved(formatted_response(message), AgentOrder, TRUE)

\* --------------------------------------------------------- history variables
NoPriorState(sid) ==
    ~sessions[sid].present /\ Transcript(conversations, sid) = <<>>

\* a write hit session sid: by instance i (0: by a per-request manager), and it
\* was a returned save_context if saved
StreakAfterWrite(i, sid, saved) ==
    [j \in Inst |->
        IF j = i /\ saved /\ streak[i] >= 0 THEN streak[i] + 1
        ELSE IF mem[j].alive /\ mem[j].session_id = sid THEN -1
        ELSE streak[j]]

CrossedAfter(sess) ==
    [s \in Sessions |-> crossed[s] \/ get_conversation_length(sess, s) >= summary_threshold]

\* a write other than clear() hit session sid
ClearedAfterWrite(sid) ==
    [j \in Inst |-> IF mem[j].session_id = sid THEN 0 ELSE cleared[j]]

\* no call of the instance is under way
Idle == [pc |-> "idle"]

\* no CompleteChain.invoke call was made yet
NoResult == [made |-> FALSE]

\* ------------------------------------------------------------- operations
Init ==
    /\ sessions = [s \in Sessions |-> NoRow]
    /\ conversations = <<>>
    /\ now = 0
    /\ mem = [i \in Inst |-> NoInst]
    /\ last_save = [sid |-> "", raised |-> FALSE]
    /\ calls = 0
    /\ fresh = [i \in Inst |-> FALSE]
    /\ streak = [i \in Inst |-> -1]
    /\ crossed = [s \in Sessions |-> FALSE]
    /\ returned = [s \in Sessions |-> 0]
    /\ cleared = [i \in Inst |-> 0]
    /\ inflight = [i \in Inst |-> Idle]
    /\ llm_calls = 0
    /\ result = NoResult

\* create_hybrid_memory(session_id): a manager the caller keeps
Create(i, sid) ==
    /\ mem' = [mem EXCEPT ![i] = new_manager(sid)]
    /\ fresh' = [fresh EXCEPT ![i] = TRUE]
    /\ streak' = [streak EXCEPT ![i] = IF NoPriorState(sid) THEN 0 ELSE -1]
    /\ cleared' = [cleared EXCEPT ![i] = 0]
    /\ UNCHANGED <<sessions, conversations, now, last_save, calls, crossed, returned,
                   inflight, llm_calls, result>>

\* memory.save_context(..) on a kept manager
SaveContext(i, message, response, llm_ok) ==
    LET r == save_context(mem[i], sessions, conversations, now, message, response, llm_ok)
    IN
    /\ mem[i].alive
    /\ calls' = calls + 1
    /\ fresh' = [fresh EXCEPT ![i] = FALSE]
    /\ last_save' = [sid |-> mem[i].session_id, raised |-> r.raised]
    /\ mem' = [mem EXCEPT ![i] = r.mem]
    /\ sessions' = r.sessions
    /\ conversations' = r.conversations
    /\ streak' = IF r.raised THEN streak ELSE StreakAfterWrite(i, mem[i].session_id, TRUE)
    /\ crossed' = CrossedAfter(r.sessions)
    /\ returned' = IF r.raised THEN returned
                   ELSE [returned EXCEPT ![mem[i].session_id] = @ + 1]
    /\ cleared' = ClearedAfterWrite(mem[i].session_id)
    /\ llm_calls' = llm_calls + r.llm
    /\ UNCHANGED <<now, inflight, result>>

\* save_context called by thread t on manager i, up to and including
\* self._update_conversation_length(..)
SaveContextBegin(t, i, message, response, llm_ok) ==
    LET sid == mem[i].session_id
        b == save_context_begin(mem[i], sessions, message, response, llm_ok)
    IN
    /\ mem[i].alive
    /\ inflight[t].pc # "set_session_metadata" /\ inflight[t].pc # "save_context"
    /\ calls' = calls + 1
    /\ mem' = [mem EXCEPT ![i] = b.mem]
    /\ sessions' = b.sessions
    /\ inflight' = [inflight EXCEPT ![t] =
                       IF b.raised THEN [pc |-> "raised", i |-> i]
                       ELSE [pc |-> "save_context", i |-> i, session_id |-> sid,
                             message |-> message, response |-> response]]
    /\ fresh' = [fresh EXCEPT ![i] = FALSE]
    /\ last_save' = IF b.raised THEN [sid |-> sid, raised |-> TRUE] ELSE last_save
    /\ crossed' = CrossedAfter(b.sessions)
    /\ cleared' = IF b.raised THEN cleared ELSE ClearedAfterWrite(sid)
    /\ llm_calls' = llm_calls + b.llm
    /\ UNCHANGED <<conversations, now, streak, returned, result>>

\* the rest of the save_context call of thread t: _save_to_full_history, return
SaveContextFinish(t) ==
    LET c == inflight[t] IN
    /\ inflight[t].pc = "save_context"
    /\ conversations' = save_to_full_history(conversations, c.session_id,
                                             c.message, c.response, now)
    /\ inflight' = [inflight EXCEPT ![t] = [pc |-> "returned", i |-> c.i]]
    /\ last_save' = [sid |-> c.session_id, raised |-> FALSE]
    /\ streak' = StreakAfterWrite(c.i, c.session_id, TRUE)
    /\ returned' = [returned EXCEPT ![c.session_id] = @ + 1]
    /\ UNCHANGED <<sessions, now, mem, calls, fresh, crossed, cleared, llm_calls, result>>

\* CompleteChain.invoke: memory = create_hybrid_memory(session_id) for this
\* request, memory.save_context(..), and the manager is dropped with the request
RequestSaveContext(sid, message, response, llm_ok) ==
    LET memory == new_manager(sid)
        r == save_context(memory, sessions, conversations, now, message, response, llm_ok)
    IN
    /\ calls' = calls + 1
    /\ last_save' = [sid |-> sid, raised |-> r.raised]
    /\ sessions' = r.sessions
    /\ conversations' = r.conversations
    /\ streak' = IF r.raised THEN streak ELSE StreakAfterWrite(0, sid, TRUE)
    /\ crossed' = CrossedAfter(r.sessions)
    /\ returned' = IF r.raised THEN returned ELSE [returned EXCEPT ![sid] = @ + 1]
    /\ cleared' = IF r.raised THEN cleared ELSE ClearedAfterWrite(sid)
    /\ llm_calls' = llm_calls + r.llm
    /\ UNCHANGED <<now, mem, fresh, inflight, result>>

\* CompleteChain.invoke({"message": .., "session_id": ..}) with the outcomes
\* of the three agents
Invoke(session_id, message, curator, processor, formatter) ==
    LET r == invoke(sessions, conversations, now, session_id, message,
                    curator, processor, formatter)
    IN
    /\ calls' = calls + r.saves
    /\ sessions' = r.sessions
    /\ conversations' = r.conversations
    /\ result' = [made |-> TRUE, returned |-> r.returned, invoked |-> r.invoked]
    /\ last_save' = IF r.saves = 1 THEN [sid |-> session_id, raised |-> FALSE]
                    ELSE last_save
    /\ streak' = IF r.saves = 1 THEN StreakAfterWrite(0, session_id, TRUE) ELSE streak
    /\ crossed' = CrossedAfter(r.sessions)
    /\ returned' = IF r.saves = 1 THEN [returned EXCEPT ![session_id] = @ + 1]
                   ELSE returned
    /\ cleared' = IF r.saves = 1 THEN ClearedAfterWrite(session_id) ELSE cleared
    /\ llm_calls' = llm_calls + r.llm
    /\ UNCHANGED <<now, mem, fresh, inflight>>

\* HybridConversationMemory.load_memory_variables
LoadMemoryVariables(i) ==
    /\ mem[i].alive
    /\ mem' = [mem EXCEPT ![i].conversation_length =
                              get_conversation_length(sessions, mem[i].session_id)]
    /\ fresh' = [fresh EXCEPT ![i] = FALSE]
    /\ UNCHANGED <<sessions, conversations, now, last_save, calls, streak, crossed, returned,
                   cleared,
                   inflight, llm_calls, result>>

\* HybridConversationMemory.get_memory_stats: no side effect
GetMemoryStats(i) ==
    /\ mem[i].alive
    /\ UNCHANGED vars

\* HybridConversationMemory.set_session_metadata
SetSessionMetadata(i, patch) ==
    LET sid == mem[i].session_id
        sess2 == set_session_metadata(sessions, sid, patch)
    IN
    /\ mem[i].alive
    /\ sessions' = sess2
    /\ fresh' = [fresh EXCEPT ![i] = FALSE]
    /\ streak' = StreakAfterWrite(i, sid, FALSE)
    /\ crossed' = CrossedAfter(sess2)
    /\ cleared' = ClearedAfterWrite(sid)
    /\ UNCHANGED <<conversations, now, mem, last_save, calls, returned,
                   inflight, llm_calls, result>>

\* HybridConversationMemory.set_welcome_status -> update_session_metadata("welcome_done", ..)
SetWelcomeStatus(i, welcome_done) ==
    LET sid == mem[i].session_id
        sess2 == update_session_metadata(sessions, sid, "welcome_done", JBool(welcome_done))
    IN
    /\ mem[i].alive
    /\ sessions' = sess2
    /\ fresh' = [fresh EXCEPT ![i] = FALSE]
    /\ streak' = StreakAfterWrite(i, sid, FALSE)
    /\ crossed' = CrossedAfter(sess2)
    /\ cleared' = ClearedAfterWrite(sid)
    /\ UNCHANGED <<conversations, now, mem, last_save, calls, returned,
                   inflight, llm_calls, result>>

\* HybridConversationMemory.update_session_metadata(key, value)
UpdateSessionMetadata(i, key, value) ==
    LET sid == mem[i].session_id
        sess2 == update_session_metadata(sessions, sid, text(key), value)
    IN
    /\ mem[i].alive
    /\ sessions' = sess2
    /\ fresh' = [fresh EXCEPT ![i] = FALSE]
    /\ streak' = StreakAfterWrite(i, sid, FALSE)
    /\ crossed' = CrossedAfter(sess2)
    /\ cleared' = ClearedAfterWrite(sid)
    /\ UNCHANGED <<conversations, now, mem, last_save, calls, returned,
                   inflight, llm_calls, result>>

\* a metadata helper that writes only when the stored document changes hands:
\* sess2 is the table it leaves
MetadataHelper(i, sess2) ==
    LET sid == mem[i].session_id IN
    /\ mem[i].alive
    /\ sessions' = sess2
    /\ fresh' = [fresh EXCEPT ![i] = FALSE]
    /\ streak' = IF sess2 = sessions THEN streak ELSE StreakAfterWrite(i, sid, FALSE)
    /\ crossed' = CrossedAfter(sess2)
    /\ cleared' = IF sess2 = sessions THEN cleared ELSE ClearedAfterWrite(sid)
    /\ UNCHANGED <<conversations, now, mem, last_save, calls, returned,
                   inflight, llm_calls, result>>

\* HybridConversationMemory.add_reason
AddReason(i, reason) ==
    MetadataHelper(i, add_reason(sessions, mem[i].session_id, reason))

\* HybridConversationMemory.remove_reason
RemoveReason(i, reason) ==
    MetadataHelper(i, remove_reason(sessions, mem[i].session_id, reason))

\* HybridConversationMemory.update_var
UpdateVar(i, var_name, value) ==
    MetadataHelper(i, update_var(sessions, mem[i].session_id, var_name, value))

\* HybridConversationMemory.set_loan_variables
SetLoanVariables(i, monthly, duration, rate) ==
    MetadataHelper(i, set_loan_variables(sessions, mem[i].session_id,
                                         monthly, duration, rate))

\* HybridConversationMemory.reset_loan_variables
ResetLoanVariables(i) ==
    MetadataHelper(i, reset_loan_variables(sessions, mem[i].session_id))

\* HybridConversationMemory.set_vars_info_given
SetVarsInfoGiven(i, given) ==
    MetadataHelper(i, set_vars_info_given(sessions, mem[i].session_id, given))

\* HybridConversationMemory.is_loan_info_complete: no side effect
IsLoanInfoComplete(i) ==
    /\ mem[i].alive
    /\ UNCHANGED vars

\* HybridConversationMemory.clear
Clear(i) ==
    LET sid == mem[i].session_id IN
    /\ mem[i].alive
    /\ mem' = [mem EXCEPT ![i].buffer = <<>>, ![i].summary = <<>>,
                          ![i].conversation_length = 0]
    /\ conversations' = delete_conversations(conversations, sid)
    /\ sessions' = [sessions EXCEPT ![sid] = NoRow]
    /\ fresh' = [fresh EXCEPT ![i] = FALSE]
    /\ streak' = StreakAfterWrite(i, sid, FALSE)
    /\ crossed' = [crossed EXCEPT ![sid] = FALSE]
    /\ returned' = [returned EXCEPT ![sid] = 0]
    /\ cleared' = [cleared EXCEPT ![i] = IF @ < 2 THEN @ + 1 ELSE 2]
    /\ UNCHANGED <<now, last_save, calls,
                   inflight, llm_calls, result>>

\* get_hybrid_conversation_history(session_id, limit, include_summary): no side effect
GetHistory(sid, limit, include_summary) ==
    /\ limit \in Nat
    /\ UNCHANGED vars

\* set_session_metadata called by thread t on manager i, up to and including
\* existing_metadata = self.get_session_metadata()
SetSessionMetadataRead(t, i, patch) ==
    /\ mem[i].alive
    /\ inflight[t].pc # "set_session_metadata" /\ inflight[t].pc # "save_context"
    /\ inflight' = [inflight EXCEPT ![t] =
                       [pc |-> "set_session_metadata", i |-> i, patch |-> patch,
                        existing_metadata |->
                            get_session_metadata(sessions, mem[i].session_id)]]
    /\ UNCHANGED <<sessions, conversations, now, mem, last_save, calls, fresh, streak,
                   crossed, returned, cleared, llm_calls, result>>

\* the rest of the set_session_metadata call of thread t: merge, INSERT OR
\* REPLACE, commit, return
SetSessionMetadataWrite(t) ==
    LET c == inflight[t]
        sid == mem[c.i].session_id
        sess2 == write_merged_metadata(sessions, sid, c.existing_metadata, c.patch)
    IN
    /\ inflight[t].pc = "set_session_metadata"
    /\ mem[c.i].alive
    /\ sessions' = sess2
    /\ inflight' = [inflight EXCEPT ![t] = [pc |-> "returned", i |-> c.i,
                                            patch |-> c.patch]]
    /\ fresh' = [fresh EXCEPT ![c.i] = FALSE]
    /\ streak' = StreakAfterWrite(c.i, sid, FALSE)
    /\ crossed' = CrossedAfter(sess2)
    /\ cleared' = ClearedAfterWrite(sid)
    /\ UNCHANGED <<conversations, now, mem, last_save, calls, returned, llm_calls, result>>

\* HybridConversationMemory.get_session_metadata: no side effect
GetSessionMetadata(i) ==
    /\ mem[i].alive
    /\ UNCHANGED vars

\* HybridConversationMemory.get_metadata_value(key, default): no side effect
GetMetadataValue(i, key, default) ==
    /\ mem[i].alive
    /\ split(key) # <<>>
    /\ UNCHANGED vars

\* a second passes
Tick ==
    /\ now < MaxClock
    /\ now' = now + 1
    /\ UNCHANGED <<sessions, conversations, mem, last_save, calls, fresh, streak, crossed,
                   returned, cleared,
                   inflight, llm_calls, result>>

\* the metadata patches the callers write
Patches == { ("a" :> JDict(("b" :> JNum("1")))),
             ("a" :> JDict(("x" :> JNum("2")))),
             ("c" :> JNum("2")) }

Limits == {1, 2, MaxSaves}

\* the keys the callers write with update_session_metadata, and the value
WriteKeys == { <<"c">>, <<"a", ".", "b">> }
WriteValue == JNum("20")

\* the dotted keys the callers read, as the pieces of the key text
DottedKeys == { <<"a", ".", "x", ".", "y">>, <<"a", ".", "b">>, <<"a", ".", "x">>, <<"a">>,
                <<"c">>, <<"c", ".", "a">>, <<"a", ".">>, <<>>, <<"welcome_", "done">>,
                <<"b">> }

\* the session the requests of Spec are about
Served == {"s1"}

\* the k-th save_context call of a behaviour carries the k-th payload
NextPayload(p) == calls < MaxSaves /\ p = Payload(calls + 1)

Next ==
    \/ \E i \in Kept, sid \in Served : Create(i, sid)
    \/ \E i \in Kept, llm_ok \in BOOLEAN, p \in Payloads :
          NextPayload(p) /\ SaveContext(i, p[1], p[2], llm_ok)
    \/ \E sid \in Served, llm_ok \in BOOLEAN, p \in Payloads :
          NextPayload(p) /\ RequestSaveContext(sid, p[1], p[2], llm_ok)
    \/ \E i \in Kept : LoadMemoryVariables(i)
    \/ \E i \in Kept : GetMemoryStats(i)
    \/ \E i \in Kept : SetSessionMetadata(i, ("c" :> JNum("2")))
    \/ \E i \in Kept, b \in BOOLEAN : SetWelcomeStatus(i, b)
    \/ \E i \in Kept : Clear(i)
    \/ \E sid \in Served, k \in Limits, inc \in BOOLEAN : GetHistory(sid, k, inc)
    \/ Tick

Spec == Init /\ [][Next]_vars

\* The metadata store under its richer patches, with few turns.
NextMeta ==
    \/ \E i \in Kept, sid \in Served : Create(i, sid)
    \/ \E i \in Kept, p \in Payloads :
          /\ calls < MaxMetaSaves
          /\ NextPayload(p)
          /\ SaveContext(i, p[1], p[2], TRUE)
    \/ \E i \in Kept, patch \in Patches : SetSessionMetadata(i, patch)
    \/ \E i \in Kept, b \in BOOLEAN : SetWelcomeStatus(i, b)
    \/ \E i \in Kept : Clear(i)
    \/ \E i \in Kept, key \in DottedKeys : GetMetadataValue(i, key, JStr("D"))
    \/ \E i \in Kept, key \in WriteKeys : UpdateSessionMetadata(i, key, WriteValue)

SpecMeta == Init /\ [][NextMeta]_vars

\* One kept manager through a conversation longer than buffer_window.
NextBuffer ==
    \/ \E i \in Kept, sid \in Served : Create(i, sid)
    \/ \E i \in Kept :
          /\ calls < MaxBufferSaves
          /\ SaveContext(i, Payload(calls + 1)[1], Payload(calls + 1)[2], TRUE)
    \/ \E i \in Kept : LoadMemoryVariables(i)
    \/ \E i \in Kept : Clear(i)

SpecBuffer == Init /\ [][NextBuffer]_vars

\* Two managers, on the same session or on different ones: the first serves
\* s1, the second either session.
Homes == <<{"s1"}, Sessions>>

NextTwo ==
    \/ \E i \in Inst : \E sid \in Homes[i] : Create(i, sid)
    \/ \E i \in Inst :
          /\ calls < MaxTwoSaves
          /\ SaveContext(i, Payload(calls + 1)[1], Payload(calls + 1)[2], TRUE)
    \/ \E i \in Inst : LoadMemoryVariables(i)
    \/ \E i \in Inst : GetMemoryStats(i)
    \/ \E i \in Inst : SetWelcomeStatus(i, TRUE)
    \/ \E i \in Inst : Clear(i)
    \/ \E i \in Inst : GetMetadataValue(i, <<"a", ".", "b">>, JStr("D"))
    \/ \E sid \in Sessions : GetHistory(sid, MaxTwoSaves, TRUE)

SpecTwo == Init /\ [][NextTwo]_vars

\* The reasons list of the sessions a kept manager is moved between.
Reasons == {JStr("r1"), JStr("r2"), JStr("r3")}

NextReasons ==
    \/ \E i \in Kept, sid \in Sessions : Create(i, sid)
    \/ \E i \in Kept, reason \in Reasons : AddReason(i, reason)
    \/ \E i \in Kept, reason \in Reasons : RemoveReason(i, reason)
    \/ \E i \in Kept : SetWelcomeStatus(i, TRUE)
    \/ \E i \in Kept : Clear(i)

SpecReasons == Init /\ [][NextReasons]_vars

\* The loan variables of one session.
VarNames == {"monthly", "duration", "rate"}
VarValues == {JNull, JNum("1500.0")}
\* an argument of set_loan_variables: left out (None) or given
LoanArgs == {JNull, JNum("2000.0")}

NextVars ==
    \/ \E i \in Kept, sid \in Served : Create(i, sid)
    \/ \E i \in Kept, var_name \in VarNames, value \in VarValues :
          UpdateVar(i, var_name, value)
    \/ \E i \in Kept, monthly \in LoanArgs, duration \in LoanArgs, rate \in LoanArgs :
          SetLoanVariables(i, monthly, duration, rate)
    \/ \E i \in Kept : ResetLoanVariables(i)
    \/ \E i \in Kept : SetVarsInfoGiven(i, TRUE)
    \/ \E i \in Kept : IsLoanInfoComplete(i)
    \/ \E i \in Kept : Clear(i)

SpecVars == Init /\ [][NextVars]_vars

\* A store whose metadata column of s1 was damaged from outside the program:
\* texts json.loads rejects ("{", "{"a":", "}", "{}}") and texts it accepts
\* that are no mapping ("[]", "null", "5").
CorruptTexts == { <<LBrace>>, <<LBrace, Tok("str", "a"), Colon>>, <<RBrace>>,
                  <<LBrace, RBrace, RBrace>>,
                  <<LBrack, RBrack>>, <<Tok("null", "")>>, <<Tok("num", "5")>> }

InitCorrupt ==
    /\ sessions \in {[s \in Sessions |->
                        IF s = "s1" THEN [present |-> TRUE, metadata |-> t,
                                          conversation_length |-> 0]
                        ELSE NoRow] : t \in CorruptTexts}
    /\ conversations = <<>>
    /\ now = 0
    /\ mem = [i \in Inst |-> NoInst]
    /\ last_save = [sid |-> "", raised |-> FALSE]
    /\ calls = 0
    /\ fresh = [i \in Inst |-> FALSE]
    /\ streak = [i \in Inst |-> -1]
    /\ crossed = [s \in Sessions |-> FALSE]
    /\ returned = [s \in Sessions |-> 0]
    /\ cleared = [i \in Inst |-> 0]
    /\ inflight = [i \in Inst |-> Idle]
    /\ llm_calls = 0
    /\ result = NoResult

NextCorrupt ==
    \/ \E i \in Kept, sid \in Served : Create(i, sid)
    \/ \E i \in Kept : GetSessionMetadata(i)
    \/ \E i \in Kept, key \in DottedKeys : GetMetadataValue(i, key, JStr("D"))
    \/ \E i \in Kept, patch \in Patches : SetSessionMetadata(i, patch)
    \/ \E i \in Kept :
          /\ calls < MaxMetaSaves
          /\ SaveContext(i, Payload(calls + 1)[1], Payload(calls + 1)[2], TRUE)
    \/ \E i \in Kept, b \in BOOLEAN : SetWelcomeStatus(i, b)
    \/ \E i \in Kept : Clear(i)

SpecCorrupt == InitCorrupt /\ [][NextCorrupt]_vars

\* Two threads, each with a manager of its own on s1, inside
\* set_session_metadata at the same time.
Threads == {1, 2}

NextRace ==
    \/ \E i \in Inst, sid \in Served : inflight[i].pc # "set_session_metadata" /\ Create(i, sid)
    \/ \E t \in Threads, patch \in Patches : SetSessionMetadataRead(t, t, patch)
    \/ \E t \in Threads : SetSessionMetadataWrite(t)
    \/ \E i \in Inst : GetSessionMetadata(i)

SpecRace == Init /\ [][NextRace]_vars

\* Two threads inside save_context on s1 at the same time, through one manager
\* or through two.
NextSaves ==
    \/ \E i \in Inst, sid \in Served : Create(i, sid)
    \/ \E t \in Threads, i \in Inst :
          /\ calls < MaxRaceSaves
          /\ SaveContextBegin(t, i, Payload(calls + 1)[1], Payload(calls + 1)[2], TRUE)
    \/ \E t \in Threads : SaveContextFinish(t)
    \/ \E i \in Inst : LoadMemoryVariables(i)

SpecSaves == Init /\ [][NextSaves]_vars

\* Requests through CompleteChain on two sessions.
NextChain ==
    \/ \E session_id \in Sessions, curator \in CuratorOutcomes,
          processor \in AgentOutcomes, formatter \in AgentOutcomes :
          /\ calls < MaxChainSaves
          /\ Invoke(session_id, calls + 1, curator, processor, formatter)
    \/ \E session_id \in Sessions : GetHistory(session_id, buffer_window, TRUE)
    \/ Tick

SpecChain == Init /\ [][NextChain]_vars

\* ------------------------------------------------------------------ claims
StoredCount(sess, sid) == get_conversation_length(sess, sid)
StoredDoc(sess, sid) == get_session_metadata(sess, sid).kv

\* a step in which a save_context call on session sid returned
SaveReturned(sid) ==
    calls' = calls + 1 /\ last_save' = [sid |-> sid, raised |-> FALSE]

\* a step that is clear() on session sid
ClearStep(sid) == \E i \in Inst : mem[i].session_id = sid /\ Clear(i)

\* (message, response) of the rows q
Pairs(q) == [j \in 1..Len(q) |-> <<q[j].message, q[j].response>>]

\* the last k entries of q
LastK(q, k) == SubSeq(q, IF Len(q) > k THEN Len(q) - k + 1 ELSE 1, Len(q))

\* C1: on a session that had no state when the manager was constructed, after N
\* returned save_context calls through that manager and no write by anyone else,
\* get_stats reports turn_count = N and the stored counter is N.
C1_TurnCountAfterNSaves ==
    \A i \in Inst :
        (mem[i].alive /\ streak[i] >= 0) =>
            /\ get_memory_stats(mem[i], sessions).conversation_length = streak[i]
            /\ StoredCount(sessions, mem[i].session_id) = streak[i]

C1_Witness ==
    \E i \in Inst :
        /\ mem[i].alive
        /\ streak[i] = summary_threshold + 1
        /\ get_memory_stats(mem[i], sessions).conversation_length = summary_threshold + 1

\* C2: a save_context made through a newly constructed manager for a session
\* whose stored turn_count is n leaves the stored turn_count at n + 1.
C2_CounterContinues ==
    [][\A sid \in Sessions :
          (/\ SaveReturned(sid)
           /\ \/ mem' = mem      \* the manager of one request
              \/ \E i \in Inst : fresh[i] /\ mem[i].session_id = sid /\ mem'[i] # mem[i])
          => StoredCount(sessions', sid) = StoredCount(sessions, sid) + 1]_vars

\* C3: once the stored turn_count of a session has reached summary_threshold, and
\* until the session is cleared, get_stats reports summary mode and
\* load_memory_variables uses summary mode.
C3_ModeOneDirectional ==
    \A i \in Inst :
        (mem[i].alive /\ crossed[mem[i].session_id]) =>
            /\ get_memory_stats(mem[i], sessions).using_summary
            /\ should_use_summary(StoredCount(sessions, mem[i].session_id))

\* C4: except by clear, the stored turn_count never decreases: a returned
\* save_context adds exactly one and every other operation leaves it unchanged.
C4_CounterMonotonic ==
    [][\A sid \in Sessions :
          IF ClearStep(sid) THEN TRUE
          ELSE IF SaveReturned(sid) THEN StoredCount(sessions', sid) = StoredCount(sessions, sid) + 1
          ELSE StoredCount(sessions', sid) = StoredCount(sessions, sid)]_vars

\* C5: save_context leaves the metadata document of its session unchanged.
C5_SaveKeepsMetadata ==
    [][\A sid \in Sessions : SaveReturned(sid) => StoredDoc(sessions', sid) = StoredDoc(sessions, sid)]_vars

\* C6: get_stats on a manager nothing was done through since its construction
\* reports the stored turn_count and the mode that follows from it.
C6_FreshStatsShowStored ==
    \A i \in Inst :
        (mem[i].alive /\ fresh[i]) =>
            LET stats == get_memory_stats(mem[i], sessions)
                stored == StoredCount(sessions, mem[i].session_id)
            IN  /\ stats.conversation_length = stored
                /\ stats.using_summary = (stored >= summary_threshold)

\* C7: a save_context call that returns appends exactly one transcript entry,
\* with the call's session, message and response, in either mode; so the
\* transcript of a session holds as many entries as calls returned.
C7_SaveAppendsOneEntry ==
    /\ [](\A sid \in Sessions : Len(Transcript(conversations, sid)) = returned[sid])
    /\ [][\A sid \in Sessions :
             SaveReturned(sid) =>
                 /\ Len(conversations') = Len(conversations) + 1
                 /\ SubSeq(conversations', 1, Len(conversations)) = conversations
                 /\ LET row == conversations'[Len(conversations')]
                    IN  /\ row.session_id = sid
                        /\ <<row.message, row.response>> = Payload(calls')]_vars

C7_Witness ==
    /\ ~last_save.raised
    /\ \E i \in Inst :
          /\ mem[i].session_id = last_save.sid
          /\ mem[i].summary # <<>>
          /\ Len(Transcript(conversations, last_save.sid)) = summary_threshold + 1
          /\ returned[last_save.sid] = summary_threshold + 1

\* C8: when the summarizer call made inside save_context raises in summary mode,
\* save_context does not raise, appends the turn to the transcript, increments
\* the stored turn_count and keeps the previous summary.
C8_SummarizerFailureTolerated ==
    [][\A i \in Inst, p \in Payloads :
          (should_use_summary(mem[i].conversation_length)
             /\ SaveContext(i, p[1], p[2], FALSE))
          => /\ ~last_save'.raised
             /\ Len(conversations') = Len(conversations) + 1
             /\ StoredCount(sessions', mem[i].session_id) = StoredCount(sessions, mem[i].session_id) + 1
             /\ mem'[i].summary = mem[i].summary]_vars

\* C9: the history fetch with limit k returns min(k, length) entries whose
\* (message, response) pairs are those of the last k save_context calls of the
\* session, oldest first.
C9_HistoryIsLastK ==
    \A sid \in Served, k \in Limits, inc \in BOOLEAN :
        \A h \in get_hybrid_conversation_history(conversations, sid, k, inc) :
            Pairs(h.recent_messages) = Pairs(LastK(Transcript(conversations, sid), k))

\* C10: set_document is a shallow top-level merge: afterwards the document has
\* the keys of the old document and of the patch, the patch's value for each
\* key of the patch (a nested object replaced as a whole) and the old value for
\* every other key.
C10_ShallowMerge ==
    [][\A i \in Inst, patch \in Patches :
          SetSessionMetadata(i, patch) =>
              LET sid == mem[i].session_id
                  old == StoredDoc(sessions, sid)
                  new == StoredDoc(sessions', sid)
              IN  /\ DOMAIN new = DOMAIN old \cup DOMAIN patch
                  /\ \A key \in DOMAIN patch : new[key] = patch[key]
                  /\ \A key \in DOMAIN old \ DOMAIN patch : new[key] = old[key]]_vars

C10_Witness ==
    StoredDoc(sessions, "s1") = ("a" :> JDict(("x" :> JNum("2")))) @@ ("c" :> JNum("2"))
                      @@ ("welcome_done" :> JBool(TRUE))

\* the turn the next save_context call of SpecBuffer / SpecTwo carries
NextTurn == Payload(calls + 1)

\* C11: load_memory_variables on a freshly constructed manager for a session
\* whose transcript is not empty returns a recent view that is not empty and
\* holds the most recent stored turns, oldest first.
C11_FreshLoadShowsTranscript ==
    \A i \in Inst :
        (mem[i].alive /\ fresh[i] /\ Transcript(conversations, mem[i].session_id) # <<>>) =>
            LET view == load_memory_variables(mem[i], sessions).recent_history
            IN  /\ view # <<>>
                /\ view = LastK(Pairs(Transcript(conversations, mem[i].session_id)), Len(view))

\* C12: the recent view returned by load_memory_variables never holds more than
\* buffer_window entries, while the transcript keeps every turn.
C12_BufferWithinWindow ==
    \A i \in Inst :
        mem[i].alive =>
            /\ Len(load_memory_variables(mem[i], sessions).recent_history) <= buffer_window
            /\ Len(Transcript(conversations, mem[i].session_id)) = returned[mem[i].session_id]

\* C13: load_memory_variables takes the mode from the stored turn_count at the
\* time of the call: below summary_threshold the summary is the empty string
\* whatever the summary component holds, otherwise it is the summary component's
\* value; the recent view and the metadata document are returned in both modes,
\* and the call sets the instance's counter to the stored one.
C13_LoadUsesStoredCount ==
    /\ [](\A i \in Inst :
            mem[i].alive =>
                LET out == load_memory_variables(mem[i], sessions)
                    stored == StoredCount(sessions, mem[i].session_id)
                IN  /\ stored < summary_threshold => out.conversation_summary = PyStr(<<>>)
                    /\ stored >= summary_threshold
                          => out.conversation_summary = summary_load(mem[i].summary)
                    /\ out.recent_history = mem[i].buffer
                    /\ out.session_metadata = JDict(StoredDoc(sessions, mem[i].session_id)))
    /\ [][\A i \in Inst :
             LoadMemoryVariables(i) =>
                 mem'[i].conversation_length = StoredCount(sessions, mem[i].session_id)]_vars

C13_Witness ==
    \E i \in Inst :
        /\ mem[i].alive
        /\ mem[i].summary # <<>>
        /\ should_use_summary(mem[i].conversation_length)
        /\ StoredCount(sessions, mem[i].session_id) < summary_threshold
        /\ load_memory_variables(mem[i], sessions).conversation_summary = PyStr(<<>>)
        /\ load_memory_variables(mem[i], sessions).recent_history # <<>>

\* C14: a save_context call folds its turn into the summary exactly when the
\* turn_count it leaves is at least summary_threshold: the T-th turn and every
\* later one is folded, the turns before it are not.
C14_ThresholdTurnFolded ==
    [][\A i \in Inst, p \in Payloads :
          SaveContext(i, p[1], p[2], TRUE) =>
              IF StoredCount(sessions', mem[i].session_id) >= summary_threshold
              THEN mem'[i].summary = Append(mem[i].summary, p)
              ELSE mem'[i].summary = mem[i].summary]_vars

\* C15: once turns of a session were folded into the summary, the history fetch
\* with include_summary returns that summary.
C15_HistorySummaryFromState ==
    \A i \in Inst :
        (mem[i].alive /\ mem[i].summary # <<>>) =>
            \A k \in Limits :
                \A h \in get_hybrid_conversation_history(conversations, mem[i].session_id,
                                                         k, TRUE) :
                    h.conversation_summary = PyStr(mem[i].summary)

\* C16: after clear(), and until the next write to the session, get_stats
\* reports turn_count 0 and buffer mode, the history is empty, the document is
\* {} and the recent view and the summary are empty; a second clear() changes
\* nothing.
C16_ClearResetsAndIsIdempotent ==
    /\ [](\A i \in Inst :
            (mem[i].alive /\ cleared[i] >= 1) =>
                LET sid == mem[i].session_id
                    stats == get_memory_stats(mem[i], sessions)
                IN  /\ stats.conversation_length = 0
                    /\ ~stats.using_summary
                    /\ StoredCount(sessions, sid) = 0
                    /\ StoredDoc(sessions, sid) = EmptyMap
                    /\ mem[i].buffer = <<>>
                    /\ mem[i].summary = <<>>
                    /\ load_memory_variables(mem[i], sessions).recent_history = <<>>
                    /\ \A k \in Limits :
                          \A h \in get_hybrid_conversation_history(conversations, sid, k, TRUE) :
                              h.recent_messages = <<>> /\ h.total_messages = 0)
    /\ [][\A i \in Inst :
             (cleared[i] >= 1 /\ Clear(i)) =>
                 /\ sessions' = sessions
                 /\ conversations' = conversations
                 /\ mem' = mem]_vars

C16_Witness ==
    \E i \in Inst :
        /\ mem[i].alive
        /\ cleared[i] = 2
        /\ calls >= summary_threshold
        /\ ~last_save.raised
        /\ last_save.sid = mem[i].session_id

\* C17: a save_context that returns writes the caller's own count plus one,
\* whatever the stored count is by then (last writer wins); so two managers
\* that each hold the count n of one session both write n + 1 and one
\* increment is lost.
C17_LastWriterWins ==
    [][\A i \in Inst :
          SaveContext(i, NextTurn[1], NextTurn[2], TRUE) =>
              StoredCount(sessions', mem[i].session_id) = mem[i].conversation_length + 1]_vars

\* three calls returned on s1, two of them made from the count 1, and the
\* stored count is 2
C17_Witness ==
    /\ mem[1].alive /\ mem[2].alive
    /\ mem[1].session_id = "s1" /\ mem[2].session_id = "s1"
    /\ returned["s1"] = 3
    /\ Len(Transcript(conversations, "s1")) = 3
    /\ mem[1].conversation_length = 2
    /\ mem[2].conversation_length = 2
    /\ StoredCount(sessions, "s1") = 2

\* C18: an operation through a manager of session A (a save_context, a metadata
\* write that changes a row, a load, a clear) leaves the transcript, the
\* sessions row and the managers of every other session B unchanged, and the
\* history of B holds no turn stored for another session.
C18_SessionsIndependent ==
    /\ [][\A i \in Inst :
             (\/ SaveContext(i, NextTurn[1], NextTurn[2], TRUE)
              \/ (sessions' # sessions /\ SetWelcomeStatus(i, TRUE))
              \/ LoadMemoryVariables(i)
              \/ Clear(i)) =>
                 \A B \in Sessions \ {mem[i].session_id} :
                     /\ sessions'[B] = sessions[B]
                     /\ Transcript(conversations', B) = Transcript(conversations, B)
                     /\ \A j \in Inst : mem[j].session_id = B => mem'[j] = mem[j]]_vars
    /\ [](\A B \in Sessions :
            \A h \in get_hybrid_conversation_history(conversations, B, MaxTwoSaves, TRUE) :
                \A n \in DOMAIN h.recent_messages :
                    ~\E r \in DOMAIN conversations :
                        /\ conversations[r].session_id # B
                        /\ conversations[r].message = h.recent_messages[n].message)

C18_Witness ==
    /\ mem[1].alive /\ mem[2].alive
    /\ mem[1].session_id = "s1" /\ mem[2].session_id = "s2"
    /\ last_save = [sid |-> "s1", raised |-> FALSE]
    /\ cleared[1] = 1
    /\ Len(Transcript(conversations, "s2")) = 2
    /\ StoredDoc(sessions, "s2") = ("welcome_done" :> JBool(TRUE))

\* C19: on a session without a stored record every read gives the default: {}
\* for the document, the supplied default for a value, turn_count 0 and buffer
\* mode in the stats, an empty history, and an empty recent view, "" and {} from
\* load_memory_variables; and load_memory_variables changes no stored row.
C19_UnknownSessionDefaults ==
    /\ [](\A i \in Inst :
            (mem[i].alive /\ NoPriorState(mem[i].session_id)) =>
                LET sid == mem[i].session_id
                    stats == get_memory_stats(mem[i], sessions)
                    out == load_memory_variables(mem[i], sessions)
                IN  /\ StoredDoc(sessions, sid) = EmptyMap
                    /\ \A key \in DottedKeys :
                          get_metadata_value(sessions, sid, key, JStr("D")) = JStr("D")
                    /\ stats.conversation_length = 0
                    /\ ~stats.using_summary
                    /\ \A h \in get_hybrid_conversation_history(conversations, sid,
                                                                MaxTwoSaves, TRUE) :
                          h.recent_messages = <<>>
                    /\ out.recent_history = <<>>
                    /\ out.conversation_summary = PyStr(<<>>)
                    /\ out.session_metadata = JDict(EmptyMap))
    /\ [][\A i \in Inst :
             LoadMemoryVariables(i) =>
                 sessions' = sessions /\ conversations' = conversations]_vars

\* the value the segments segs lead to in doc, found from the last segment back
RECURSIVE Reached(_, _)
Reached(doc, segs) ==
    IF segs = <<>> THEN [ok |-> TRUE, val |-> doc]
    ELSE LET p == Reached(doc, SubSeq(segs, 1, Len(segs) - 1))
             last == segs[Len(segs)]
         IN  IF p.ok /\ p.val.k = "dict" /\ last \in DOMAIN p.val.kv
             THEN [ok |-> TRUE, val |-> p.val.kv[last]]
             ELSE [ok |-> FALSE, val |-> JNull]

\* C20: get_value splits the key on "." and walks the document: it returns the
\* value at the last segment when every segment is a key of the mapping
\* reached so far, and the default as soon as a segment is missing or the value
\* reached is not a mapping.
C20_DottedRead ==
    /\ split(<<"a", ".", "x", ".", "y">>) = <<"a", "x", "y">>
    /\ split(<<"welcome_", "done">>) = <<"welcome_done">>
    /\ split(<<"a", ".">>) = <<"a", "">>
    /\ split(<<>>) = <<"">>
    /\ \A i \in Inst :
          mem[i].alive =>
              \A key \in DottedKeys :
                  LET doc == get_session_metadata(sessions, mem[i].session_id)
                      r == Reached(doc, split(key))
                  IN  get_metadata_value(sessions, mem[i].session_id, key, JStr("D"))
                          = IF r.ok THEN r.val ELSE JStr("D")

C20_Witness ==
    \E i \in Inst :
        LET sid == mem[i].session_id IN
        /\ mem[i].alive
        /\ StoredDoc(sessions, sid) = ("a" :> JDict(("b" :> JNum("1"))))
                                        @@ ("c" :> JNum("2"))
        /\ get_metadata_value(sessions, sid, <<"a", ".", "x", ".", "y">>, JStr("D")) = JStr("D")
        /\ get_metadata_value(sessions, sid, <<"c", ".", "a">>, JStr("D")) = JStr("D")
        /\ get_metadata_value(sessions, sid, <<"a", ".", "b">>, JStr("D")) = JNum("1")
        /\ get_metadata_value(sessions, sid, <<"a">>, JStr("D")) = JDict(("b" :> JNum("1")))

\* C21: update_value(key, v) followed by get_value(key, default) returns v, for
\* every key, also one that contains ".".
C21_KeyRoundTrip ==
    [][\A i \in Inst, key \in WriteKeys :
          UpdateSessionMetadata(i, key, WriteValue) =>
              get_metadata_value(sessions', mem[i].session_id, key, JStr("D")) = WriteValue]_vars

\* C22: from every stored state update_value(key, value) and
\* set_document({key: value}) leave the same sessions table: the document with
\* the entry key written and every other top-level entry unchanged.
C22_UpdateIsSetOfOneKey ==
    \A i \in Inst :
        mem[i].alive =>
            \A key \in WriteKeys :
                LET sid == mem[i].session_id
                    k == text(key)
                    old == StoredDoc(sessions, sid)
                    updated == update_session_metadata(sessions, sid, k, WriteValue)
                    new == StoredDoc(updated, sid)
                IN  /\ updated = set_session_metadata(sessions, sid, (k :> WriteValue))
                    /\ DOMAIN new = DOMAIN old \cup {k}
                    /\ new[k] = WriteValue
                    /\ \A n \in DOMAIN old \ {k} : new[n] = old[n]

C22_Witness ==
    \E i \in Inst :
        /\ mem[i].alive
        /\ StoredDoc(sessions, mem[i].session_id) =
              ("a" :> JDict(("b" :> JNum("1")))) @@ ("c" :> WriteValue)
                 @@ ("welcome_done" :> JBool(TRUE))

\* C23: from a session with no reasons, whatever add_reason and remove_reason
\* calls are made, the stored reasons list holds no reason twice; add_reason of a
\* reason in the list and remove_reason of a reason not in it change nothing;
\* add_reason of a new reason puts it last, and remove_reason takes the reason out
\* and leaves the others in their order (so the list is in insertion order).
NoDuplicate(l) == \A j, k \in DOMAIN l : l[j] = l[k] => j = k

StoredVarSet(sess, sid, key) ==
    /\ "vars" \in DOMAIN StoredDoc(sess, sid)
    /\ key \in DOMAIN StoredDoc(sess, sid)["vars"].kv
    /\ StoredDoc(sess, sid)["vars"].kv[key] # JNull

C24_LoanInfoComplete ==
    /\ [](\A i \in Inst : mem[i].alive =>
             (is_loan_info_complete(sessions, mem[i].session_id)
                 <=> \A key \in VarNames : StoredVarSet(sessions, mem[i].session_id, key)))
    /\ [][\A i \in Inst :
            LET sid == mem[i].session_id
                old == get_vars(sessions, sid).kv
                new == StoredDoc(sessions', sid)
            IN  /\ ResetLoanVariables(i) =>
                      /\ new["vars"] = vars_default
                      /\ new["vars_info_given"] = JBool(FALSE)
                /\ \A monthly \in LoanArgs, duration \in LoanArgs, rate \in LoanArgs :
                      SetLoanVariables(i, monthly, duration, rate) =>
                          /\ new["vars"].kv["monthly"] =
                                IF monthly = JNull THEN old["monthly"] ELSE monthly
                          /\ new["vars"].kv["duration"] =
                                IF duration = JNull THEN old["duration"] ELSE duration
                          /\ new["vars"].kv["rate"] =
                                IF rate = JNull THEN old["rate"] ELSE rate]_vars

\* two fields came from update_var and the third from set_loan_variables with
\* the other two arguments left out: the record is complete
C24_Witness ==
    \E i \in Inst :
        /\ mem[i].alive
        /\ is_loan_info_complete(sessions, mem[i].session_id)
        /\ StoredDoc(sessions, mem[i].session_id) =
              ("vars" :> JDict(("monthly" :> JNum("1500.0")) @@
                               ("duration" :> JNum("1500.0")) @@
                               ("rate" :> JNum("2000.0")))) @@
              ("vars_info_given" :> JBool(TRUE))

\* C25: when the stored metadata text of a session is no document,
\* get_session_metadata gives {} and get_metadata_value gives the default, and
\* a set_session_metadata(patch) that follows stores exactly patch.
Malformed(sess, sid) ==
    /\ sess[sid].present
    /\ sess[sid].metadata # <<>>
    /\ LET r == json_loads(sess[sid].metadata) IN ~r.ok \/ r.val.k # "dict"

C25_MalformedDegrades ==
    /\ [](\A i \in Inst : mem[i].alive /\ Malformed(sessions, mem[i].session_id) =>
             /\ get_session_metadata(sessions, mem[i].session_id) = JDict(EmptyMap)
             /\ \A key \in DottedKeys :
                   get_metadata_value(sessions, mem[i].session_id, key, JStr("D"))
                       = JStr("D"))
    /\ [][\A i \in Inst, patch \in Patches :
            Malformed(sessions, mem[i].session_id) /\ SetSessionMetadata(i, patch) =>
                sessions'[mem[i].session_id].metadata = json_dumps(JDict(patch))]_vars

\* C26: the transcript of a session is append-only: over every step that is
\* not a clear() of the session (a save_context in either mode, returned or
\* raised, a metadata write, a load, a history fetch), the transcript before
\* the step is a prefix of the transcript after it.
IsPrefix(p, q) == Len(p) <= Len(q) /\ SubSeq(q, 1, Len(p)) = p

C26_TranscriptAppendOnly ==
    [][\A sid \in Sessions :
          ~ClearStep(sid) =>
              IsPrefix(Transcript(conversations, sid), Transcript(conversations', sid))]_vars

\* a transcript that grew into summary mode, with a metadata write after it
C26_Witness ==
    /\ Len(Transcript(conversations, "s1")) > summary_threshold
    /\ mem[1].alive /\ should_use_summary(mem[1].conversation_length)
    /\ "welcome_done" \in DOMAIN StoredDoc(sessions, "s1")

\* C27: set_session_metadata is a read, a merge and a write that other calls
\* can come between: the write stores the document read earlier merged with
\* the patch, whatever is stored by then, so of two overlapping calls with
\* patches on different keys the later write can undo the earlier one.
C27_ReadMergeWrite ==
    [][\A t \in Threads :
          SetSessionMetadataWrite(t) =>
              StoredDoc(sessions', mem[inflight[t].i].session_id) =
                  MergeDoc(inflight[t].existing_metadata.kv, inflight[t].patch)]_vars

\* both calls returned, the one with key "a" and the one with key "c", and
\* the stored document has only "c"
C27_Witness ==
    /\ inflight[1] = [pc |-> "returned", i |-> 1, patch |-> ("a" :> JDict(("b" :> JNum("1"))))]
    /\ inflight[2] = [pc |-> "returned", i |-> 2, patch |-> ("c" :> JNum("2"))]
    /\ mem[1].session_id = mem[2].session_id
    /\ StoredDoc(sessions, mem[1].session_id) = ("c" :> JNum("2"))

\* C28: however concurrent save_context calls on one session interleave, the
\* turn of a call that returned is in the transcript exactly once and the turn
\* of a call still under way is not in it: the transcript has as many rows as
\* calls returned, while the stored counter can be smaller.
SaveUnderWay(n) ==
    \E t \in Threads : /\ inflight[t].pc = "save_context"
                        /\ <<inflight[t].message, inflight[t].response>> = Payload(n)

RowsOf(n) ==
    {j \in DOMAIN conversations :
        <<conversations[j].message, conversations[j].response>> = Payload(n)}

C28_EachTurnOnce ==
    /\ \A n \in 1..calls : Cardinality(RowsOf(n)) = IF SaveUnderWay(n) THEN 0 ELSE 1
    /\ \A sid \in Sessions : Len(Transcript(conversations, sid)) = returned[sid]
    /\ \A sid \in Sessions : StoredCount(sessions, sid) <= calls

\* the second call returned before the first, both through managers of their
\* own: two rows, and the stored counter is 1
C28_Witness ==
    /\ \A t \in Threads : inflight[t].pc = "returned"
    /\ Pairs(Transcript(conversations, "s1")) = <<Payload(2), Payload(1)>>
    /\ StoredCount(sessions, "s1") = 1

\* C29: the summarizer is called only inside save_context, at most once a
\* call, and only when the counter of the manager saving is at
\* summary_threshold or above; loads, history fetches, stats, clear and the
\* metadata operations never call it.
C29_SummarizerOnlyInSave ==
    [][/\ llm_calls' \in {llm_calls, llm_calls + 1}
       /\ llm_calls' # llm_calls =>
             /\ calls' = calls + 1
             /\ \E i \in Inst :
                   /\ mem[i].alive
                   /\ should_use_summary(mem[i].conversation_length)
                   /\ mem'[i].buffer = Append(mem[i].buffer, NextTurn)]_vars

\* three saves without the summarizer, and the fourth called it once
C29_Witness ==
    /\ calls = summary_threshold + 1
    /\ llm_calls = 1
    /\ mem[1].summary = <<Payload(summary_threshold + 1)>>
    /\ last_save = [sid |-> "s1", raised |-> FALSE]

\* C30: a CompleteChain.invoke call calls the agents in the order curator,
\* processor, formatter (agents_used and the agents called are prefixes of
\* that list), calls processor and formatter only when the curator result is
\* valid, and makes at most one save_context: exactly one when no agent called
\* raises (with the validation-failure message as the response saved when the
\* curator result is invalid, and then only the curator was called), none when
\* one raises, and then it returns an error response with success = false.
C30_ChainOrderAndOneSave ==
    [][\A session_id \in Sessions, curator \in CuratorOutcomes,
          processor \in AgentOutcomes, formatter \in AgentOutcomes :
          Invoke(session_id, calls + 1, curator, processor, formatter) =>
              LET message == calls + 1
                  ret == result'.returned
                  called == result'.invoked
                  added == Len(conversations') - Len(conversations)
                  raises == \/ curator = "raise"
                            \/ curator = "valid" /\ processor = "raise"
                            \/ curator = "valid" /\ processor = "ok" /\ formatter = "raise"
              IN  /\ IsPrefix(ret.agents_used, AgentOrder)
                  /\ IsPrefix(called, AgentOrder)
                  /\ Len(called) > 1 => curator = "valid"
                  /\ IsPrefix(conversations, conversations')
                  /\ added = IF raises THEN 0 ELSE 1
                  /\ ~raises =>
                        /\ conversations'[Len(conversations')].session_id = session_id
                        /\ conversations'[Len(conversations')].message = message
                        /\ conversations'[Len(conversations')].response =
                              IF curator = "invalid"
                              THEN validation_failed_response(message)
                              ELSE formatted_response(message)
                        /\ ret.response = conversations'[Len(conversations')].response
                        /\ ret.success = (curator = "valid")
                  /\ curator = "invalid" => called = <<"curator">>
                  /\ raises =>
                        /\ sessions' = sessions
                        /\ ret.success = FALSE
                        /\ ret.response = error_response(message)]_vars

\* after a request that ended on the validation-failed path and one that went
\* through the three agents, the processor of a third request raised
C30_Witness ==
    /\ result.made
    /\ result.returned.content_type = "error"
    /\ result.returned.agents_used = <<"curator">>
    /\ result.invoked = <<"curator", "processor">>
    /\ Len(conversations) = 2
    /\ conversations[1].response = validation_failed_response(1)
    /\ conversations[2].response = formatted_response(2)
====
